---- MODULE Spec2Model ----
(***************************************************************************)
(* One run of the Gmail processor (index.js main): authentication         *)
(* (auth.js, manual and local-callback variants), fetchCVSEmails /        *)
(* extractEmailData (email-service.js) and saveEmailData (utils.js).      *)
(* Every await of the code is a step; the provider, the file system, the  *)
(* operator and the browser are the environment, drawn with \E.           *)
(***************************************************************************)
EXTENDS Integers, Sequences, FiniteSets, TLC

\* ---------------------------------------------------------------- bounds
MaxMessages == 2   \* messages the list call returns (the code caps at 500)
MaxRequests == 2   \* HTTP requests that reach the callback listener
MaxConns    == 1   \* sockets the listener accepts while it listens

\* ------------------------------------------------------------ JS values
Null      == "<null>"        \* JavaScript null
Undefined == "<undefined>"   \* JavaScript undefined
NullTs    == <<>>            \* a null timestamp; a number n is <<n>>

\* JavaScript truthiness of a string-or-null value (if (x) ...).
Truthy(v) == v \notin {Null, Undefined, ""}

\* ---------------------------------------------------------------- auth
Codes   == {"ABC", "XYZ"}    \* authorization codes the provider hands out
NoCode  == ""                \* queryParams.code absent from the redirect
Queries == Codes \cup {NoCode}

\* oAuth2Client.getToken(code), when the provider accepts the code.
TokensFor(code) == [access_token |-> code, token_type |-> "Bearer"]

CachedTokens == [access_token |-> "cached", token_type |-> "Bearer"]

\* No token: a client without credentials, a promise without a value.
NoTokens == [access_token |-> Null, token_type |-> Null]

TokenObjects == {CachedTokens} \cup {TokensFor(c) : c \in Codes}

\* JSON.stringify(tokens): the text written to token.json.
JSONstringifyTokens(t) ==
    CASE t.access_token = "ABC"    -> "{access_token:ABC,token_type:Bearer}"
      [] t.access_token = "XYZ"    -> "{access_token:XYZ,token_type:Bearer}"
      [] t.access_token = "cached" -> "{access_token:cached,token_type:Bearer}"

FileAbsent  == "ENOENT"      \* token.json does not exist: readFile throws
FileCorrupt == "{access_tok" \* token.json is not JSON: JSON.parse throws
FileTruncated == ""          \* token.json opened for writing, nothing written

\* fs.readFile(TOKEN_PATH) followed by JSON.parse: TRUE when neither throws.
TokenLoads(file) == \E t \in TokenObjects : JSONstringifyTokens(t) = file

JSONparseTokens(file) ==
    CHOOSE t \in TokenObjects : JSONstringifyTokens(t) = file

\* The promise getNewToken returns (local-callback variant).
PendingPromise == [state |-> "pending", value |-> NoTokens, reason |-> Null]

\* resolve(value): the first settlement wins, later ones are ignored.
Resolve(p, v) ==
    IF p.state = "pending"
    THEN [state |-> "fulfilled", value |-> v, reason |-> Null]
    ELSE p

\* reject(error): the first settlement wins, later ones are ignored.
Reject(p, e) ==
    IF p.state = "pending"
    THEN [state |-> "rejected", value |-> NoTokens, reason |-> e]
    ELSE p

\* ------------------------------------------------------- email-service
MsgIds == {"m1", "m2"}       \* message ids the provider lists

\* What gmail.users.messages.list resolves with: response.data.messages,
\* an absent field being read as the empty list.
MessageLists == UNION {[1..n -> MsgIds] : n \in 0..MaxMessages}

Header(n, v) == [name |-> n, value |-> v]

\* payload.headers of a metadata response: To and Date; Date before a
\* duplicated To; a lower-case "to" only; a To that is a property name every
\* JavaScript object inherits.
HeaderLists ==
    { <<Header("To", "a@x.com"), Header("Date", "Mon, 4 Mar 2024")>>,
      <<Header("Date", "Tue, 5 Mar 2024"), Header("To", "b@x.com"),
        Header("To", "a@x.com")>>,
      <<Header("to", "a@x.com")>>,
      <<Header("To", "constructor"), Header("Date", "Mon, 4 Mar 2024")>> }

InternalDates == {Undefined, "1700"}

\* Outcomes of gmail.users.messages.get for one message: a rejection, a
\* response without payload, a payload without headers, a full response.
GetResponses ==
    { [throws |-> TRUE, message |-> "Not Found", hasPayload |-> FALSE,
       hasHeaders |-> FALSE, headers |-> <<>>, internalDate |-> Undefined],
      [throws |-> FALSE, message |-> Undefined, hasPayload |-> FALSE,
       hasHeaders |-> FALSE, headers |-> <<>>, internalDate |-> "1700"],
      [throws |-> FALSE, message |-> Undefined, hasPayload |-> TRUE,
       hasHeaders |-> FALSE, headers |-> <<>>, internalDate |-> "1700"] }
    \cup
    { [throws |-> FALSE, message |-> Undefined, hasPayload |-> TRUE,
       hasHeaders |-> TRUE, headers |-> h, internalDate |-> d] :
      h \in HeaderLists, d \in InternalDates }

\* No response yet.
NoResponse ==
    [throws |-> FALSE, message |-> Undefined, hasPayload |-> FALSE,
     hasHeaders |-> FALSE, headers |-> <<>>, internalDate |-> Undefined]

\* parseInt of an internalDate string.
ParseInt(s) == CASE s = "1700" -> <<1700>> [] OTHER -> NullTs

\* headers.find(h => h.name === name), then header ? header.value : null.
RECURSIVE FindHeader(_, _, _)
FindHeader(headers, name, k) ==
    IF k > Len(headers) THEN Null
    ELSE IF headers[k].name = name THEN headers[k].value
    ELSE FindHeader(headers, name, k + 1)

getHeaderValue(headers, name) == FindHeader(headers, name, 1)

\* The try block of extractEmailData: what it throws, or the record it builds.
TryExtract(messageId, resp) ==
    IF resp.throws
    THEN [threw |-> TRUE, message |-> resp.message]
    ELSE IF ~resp.hasPayload
    THEN [threw |-> TRUE, message |-> "Cannot destructure property 'headers'"]
    ELSE IF ~resp.hasHeaders
    THEN [threw |-> TRUE, message |-> "Cannot read properties of undefined"]
    ELSE [threw |-> FALSE, message |-> Undefined]

\* The record the try block returns.
EmailData(messageId, resp) ==
    [id |-> messageId, error |-> Undefined, subject |-> Undefined,
     from |-> Undefined,
     to |-> getHeaderValue(resp.headers, "To"),
     date |-> getHeaderValue(resp.headers, "Date"),
     timestamp |-> IF Truthy(resp.internalDate)
                   THEN ParseInt(resp.internalDate) ELSE NullTs]

\* The record the catch block returns.
ErrorData(messageId, message) ==
    [id |-> messageId, error |-> message, subject |-> Null, from |-> Null,
     to |-> Null, date |-> Null, timestamp |-> NullTs]

\* A promise of extractEmailData that has not settled.
PendingRecord ==
    [id |-> Undefined, error |-> Undefined, subject |-> Undefined,
     from |-> Undefined, to |-> Undefined, date |-> Undefined,
     timestamp |-> NullTs]

PendingSlot == [st |-> "pending", val |-> PendingRecord]

\* Mutant: extractEmailData without its catch block.
ExtractEmailDataNoCatch(messageId, resp) ==
    LET t == TryExtract(messageId, resp) IN
    IF t.threw
    THEN [st |-> "rejected", val |-> PendingRecord]
    ELSE [st |-> "fulfilled", val |-> EmailData(messageId, resp)]

\* extractEmailData: how its promise settles for one provider response.
extractEmailData(messageId, resp) ==
    LET t == TryExtract(messageId, resp) IN
    IF t.threw
    THEN [st |-> "fulfilled", val |-> ErrorData(messageId, t.message)]
    ELSE [st |-> "fulfilled", val |-> EmailData(messageId, resp)]

\* Mutant: Promise.race in place of Promise.all.
PromiseRaceState(slots) ==
    IF \E i \in DOMAIN slots : slots[i].st = "rejected" THEN "rejected"
    ELSE IF \E i \in DOMAIN slots : slots[i].st = "fulfilled" THEN "fulfilled"
    ELSE "pending"

\* Promise.all(emailDataPromises): rejected as soon as one promise rejects,
\* fulfilled once all are fulfilled.
PromiseAllState(slots) ==
    IF \E i \in DOMAIN slots : slots[i].st = "rejected" THEN "rejected"
    ELSE IF \A i \in DOMAIN slots : slots[i].st = "fulfilled" THEN "fulfilled"
    ELSE "pending"

\* Mutant: records that carry an error are filtered out of the result.
PromiseAllValuesFiltered(slots) ==
    SelectSeq([i \in DOMAIN slots |-> slots[i].val],
              LAMBDA r : r.error = Undefined)

\* The array Promise.all fulfils with: the values in the promises' order.
PromiseAllValues(slots) == [i \in DOMAIN slots |-> slots[i].val]

\* ---------------------------------------------------------------- utils
MapKeys   == {"a@x.com", "b@x.com"}
MapValues == {"555-0100", "555-0199", ""}

\* JavaScript values JSON.parse can return for the mapping file.
JsObject(props) == [kind |-> "object", props |-> props]
JsNull   == [kind |-> "null", props |-> [k \in {} |-> ""]]
JsScalar == [kind |-> "scalar", props |-> [k \in {} |-> ""]]

\* The mapping file: absent, unreadable, not JSON, or JSON text.
MappingFiles ==
    { [readable |-> FALSE, json |-> FALSE, value |-> JsNull],
      [readable |-> TRUE, json |-> FALSE, value |-> JsNull],
      [readable |-> TRUE, json |-> TRUE, value |-> JsNull],
      [readable |-> TRUE, json |-> TRUE, value |-> JsScalar] }
    \cup
    { [readable |-> TRUE, json |-> TRUE, value |-> JsObject(m)] :
      m \in UNION {[K -> MapValues] : K \in SUBSET MapKeys} }

\* Lines 53-61 of saveEmailData: emailToPhoneMap after the inner try/catch.
\* A parsed value is assigned before Object.keys is applied to it.
LoadMapping(file) ==
    IF file.readable /\ file.json THEN file.value
    ELSE JsObject([k \in {} |-> ""])

\* Property names every object inherits from Object.prototype.
InheritedKeys == {"constructor", "toString"}

\* obj[key] on a non-null value.
PropertyGet(obj, key) ==
    IF key \in DOMAIN obj.props THEN obj.props[key]
    ELSE IF key \in InheritedKeys THEN "[Function]"
    ELSE Undefined

\* The loop of saveEmailData over emails, from index i with the phone
\* numbers pushed so far: the array it ends with, or the TypeError of
\* indexing null.
RECURSIVE CollectFrom(_, _, _, _)
CollectFrom(emails, map, i, acc) ==
    IF i > Len(emails) THEN [threw |-> FALSE, phones |-> acc]
    ELSE LET toAddress == emails[i].to IN
         IF ~Truthy(toAddress) THEN CollectFrom(emails, map, i + 1, acc)
         ELSE IF map.kind = "null" THEN [threw |-> TRUE, phones |-> acc]
         ELSE IF Truthy(PropertyGet(map, toAddress))
         THEN CollectFrom(emails, map, i + 1,
                          Append(acc, PropertyGet(map, toAddress)))
         ELSE CollectFrom(emails, map, i + 1, acc)

CollectPhoneNumbers(emails, map) == CollectFrom(emails, map, 1, <<>>)


VARIABLES
    variant,        \* which auth.js is installed: "manual" or "callback"
    pc,             \* where main is suspended (its pending await)
    tokenFile,      \* content of token.json
    tokenFileAtStart, \* content of token.json when the run started
    tokenLoaded,    \* credentials were set from token.json
    credentials,    \* tokens set on oAuth2Client (NoTokens: none)
    authResult,     \* getAuthenticatedGmail: "pending", "client", "threw"
    authUrls,       \* calls of generateAuthUrl
    codesAcquired,  \* codes obtained (stdin line, or redirect with a code)
    exchanges,      \* calls of oAuth2Client.getToken
    manualCode,     \* the code read from stdin (manual variant)
    promise,        \* the promise getNewToken returns (callback variant)
    server,         \* "none", "binding", "listening", "closed", "failed"
    closeCalls,     \* calls of server.close()
    connections,    \* sockets accepted by the listener
    handlers,       \* one entry per HTTP request handled, in arrival order
    fetchResult,    \* fetchCVSEmails: "pending", "returned", "threw"
    messages,       \* response.data.messages || []: the listed ids
    responses,      \* what messages.get answered for each listed message
    slots,          \* emailDataPromises: one extractEmailData promise each
    emailData,      \* the array fetchCVSEmails returns (emails in main)
    outputDirExists,\* the output directory exists
    outputWritten,  \* the output file has been written
    outputFile,     \* the records serialized into the output file
    emailToPhoneMap,\* saveEmailData's emailToPhoneMap
    phoneNumbers,   \* the array saveEmailData returns
    saveResult      \* saveEmailData: "pending", "returned", "EWRITE", "TypeError"

authVars == <<variant, tokenFile, tokenLoaded, credentials, authResult, authUrls,
              codesAcquired, exchanges, manualCode, promise, server,
              closeCalls, connections, handlers>>

pipeVars == <<fetchResult, messages, responses, slots, emailData,
              outputDirExists, outputWritten, outputFile, emailToPhoneMap,
              phoneNumbers, saveResult>>

vars == <<pc, tokenFileAtStart, authVars, pipeVars>>

\* The pipeline before fetchCVSEmails is called.
PipeInit ==
    /\ fetchResult = "pending"
    /\ messages = <<>>
    /\ responses = <<>>
    /\ slots = <<>>
    /\ emailData = <<>>
    /\ outputDirExists = FALSE
    /\ outputWritten = FALSE
    /\ outputFile = <<>>
    /\ emailToPhoneMap = JsObject([k \in {} |-> ""])
    /\ phoneNumbers = <<>>
    /\ saveResult = "pending"

Init ==
    /\ variant \in {"manual", "callback"}
    /\ pc = "auth_read"
    /\ tokenFile \in {FileAbsent, FileCorrupt, JSONstringifyTokens(CachedTokens)}
    /\ tokenFileAtStart = tokenFile
    /\ tokenLoaded = FALSE
    /\ credentials = NoTokens
    /\ authResult = "pending"
    /\ authUrls = 0
    /\ codesAcquired = 0
    /\ exchanges = 0
    /\ manualCode = Null
    /\ promise = PendingPromise
    /\ server = "none"
    /\ closeCalls = 0
    /\ connections = 0
    /\ handlers = <<>>
    /\ PipeInit

\* main at the call of fetchCVSEmails, with the client built from a cached
\* token: the state ReadTokenFile leaves when token.json loads.
PipelineInit ==
    /\ variant \in {"manual", "callback"}
    /\ pc = "list"
    /\ tokenFile = JSONstringifyTokens(CachedTokens)
    /\ tokenFileAtStart = tokenFile
    /\ tokenLoaded = TRUE
    /\ credentials = CachedTokens
    /\ authResult = "client"
    /\ authUrls = 0
    /\ codesAcquired = 0
    /\ exchanges = 0
    /\ manualCode = Null
    /\ promise = PendingPromise
    /\ server = "none"
    /\ closeCalls = 0
    /\ connections = 0
    /\ handlers = <<>>
    /\ PipeInit

\* getAuthenticatedGmail up to and including the token file read: with a
\* loadable token the client is returned at once, otherwise getNewToken is
\* entered and runs to its first suspension.
ReadTokenFile ==
    /\ pc = "auth_read"
    /\ IF TokenLoads(tokenFile)
       THEN /\ credentials' = JSONparseTokens(tokenFile)
            /\ tokenLoaded' = TRUE
            /\ authResult' = "client"
            /\ pc' = "list"
            /\ UNCHANGED <<authUrls, server>>
       ELSE /\ tokenLoaded' = FALSE
            /\ authUrls' = authUrls + 1
            /\ pc' = IF variant = "manual" THEN "m_code" ELSE "cb_wait"
            /\ server' = IF variant = "manual" THEN server ELSE "binding"
            /\ UNCHANGED <<credentials, authResult>>
    /\ UNCHANGED <<variant, tokenFile, codesAcquired, exchanges, manualCode,
                   promise, closeCalls, connections, handlers>>
    /\ UNCHANGED <<tokenFileAtStart, pipeVars>>

\* ----------------------------------------------------- manual variant

\* The operator types a line; getNewToken passes it to getToken at once.
ManualCode(code) ==
    /\ pc = "m_code"
    /\ manualCode' = code
    /\ codesAcquired' = codesAcquired + 1
    /\ exchanges' = exchanges + 1
    /\ pc' = "m_exchange"
    /\ UNCHANGED <<variant, tokenFile, tokenLoaded, credentials, authResult, authUrls,
                   promise, server, closeCalls, connections, handlers>>
    /\ UNCHANGED <<tokenFileAtStart, pipeVars>>

\* getToken settles: tokens are set on the client and the token file write
\* starts, or the rejection leaves getNewToken and getAuthenticatedGmail
\* and main exits with status 1.
ManualExchange(ok) ==
    /\ pc = "m_exchange"
    /\ IF ok
       THEN /\ credentials' = TokensFor(manualCode)
            /\ pc' = "m_write"
            /\ UNCHANGED authResult
       ELSE /\ authResult' = "threw"
            /\ pc' = "exit1"
            /\ UNCHANGED credentials
    /\ UNCHANGED <<variant, tokenFile, tokenLoaded, authUrls, codesAcquired, exchanges,
                   manualCode, promise, server, closeCalls, connections,
                   handlers>>
    /\ UNCHANGED <<tokenFileAtStart, pipeVars>>

\* fs.writeFile(TOKEN_PATH, ...) settles. It opens the file with flag 'w',
\* which truncates it, then writes: a rejection leaves the file untouched
\* (the open failed) or truncated (the write failed).
ManualWrite(ok, truncated) ==
    /\ pc = "m_write"
    /\ ok => ~truncated
    /\ IF ok
       THEN /\ tokenFile' = JSONstringifyTokens(TokensFor(manualCode))
            /\ authResult' = "client"
            /\ pc' = "list"
       ELSE /\ authResult' = "threw"
            /\ pc' = "exit1"
            /\ tokenFile' = IF truncated THEN FileTruncated ELSE tokenFile
    /\ UNCHANGED <<variant, tokenLoaded, credentials, authUrls, codesAcquired,
                   exchanges, manualCode, promise, server, closeCalls,
                   connections, handlers>>
    /\ UNCHANGED <<tokenFileAtStart, pipeVars>>

\* --------------------------------------------- local-callback variant

\* process.exit(1) ends every pending callback of the process.
Alive == pc # "exit1"

\* server.close(): a listening server stops accepting; the sockets it has
\* accepted stay open. On a server that is not listening it changes nothing.
CloseServer(s) == IF s = "listening" THEN "closed" ELSE s

\* The promise of getNewToken after a resolve or reject call left it as p:
\* once it is settled, getAuthenticatedGmail resumes from its await before
\* any other callback runs. Fulfilled, it sets the tokens on the client and
\* returns it, and main calls fetchCVSEmails, which sends the list request;
\* rejected, the error reaches main, which exits with status 1.
ResumeAuth(p) ==
    IF pc = "cb_wait" /\ p.state = "fulfilled"
    THEN /\ credentials' = p.value
         /\ authResult' = "client"
         /\ pc' = "list"
    ELSE IF pc = "cb_wait" /\ p.state = "rejected"
    THEN /\ authResult' = "threw"
         /\ pc' = "exit1"
         /\ UNCHANGED credentials
    ELSE UNCHANGED <<pc, credentials, authResult>>

\* The listen callback: the port is bound, the browser is opened.
ServerListening ==
    /\ Alive
    /\ server = "binding"
    /\ server' = "listening"
    /\ UNCHANGED <<pc, variant, tokenFile, tokenLoaded, credentials, authResult, authUrls,
                   codesAcquired, exchanges, manualCode, promise, closeCalls,
                   connections, handlers>>
    /\ UNCHANGED <<tokenFileAtStart, pipeVars>>

\* The 'error' event of the server (the port is in use): reject(error).
ServerError ==
    /\ Alive
    /\ server = "binding"
    /\ server' = "failed"
    /\ promise' = Reject(promise, "EADDRINUSE")
    /\ ResumeAuth(Reject(promise, "EADDRINUSE"))
    /\ UNCHANGED <<variant, tokenFile, tokenLoaded, authUrls, codesAcquired, exchanges,
                   manualCode, closeCalls, connections, handlers>>
    /\ UNCHANGED <<tokenFileAtStart, pipeVars>>

\* The listener accepts a socket from the browser.
Accept ==
    /\ Alive
    /\ server = "listening"
    /\ connections < MaxConns
    /\ connections' = connections + 1
    /\ UNCHANGED <<pc, variant, tokenFile, tokenLoaded, credentials, authResult, authUrls,
                   codesAcquired, exchanges, manualCode, promise, server,
                   closeCalls, handlers>>
    /\ UNCHANGED <<tokenFileAtStart, pipeVars>>

\* What the request handler has done when it first suspends or returns:
\* the entry it leaves in handlers.
HandlerEntry(query, throws) ==
    IF throws
    THEN [query |-> query, status |-> 500, st |-> "rejected_throw"]
    ELSE IF Truthy(query)
    THEN [query |-> query, status |-> 200, st |-> "exchange"]
    ELSE [query |-> query, status |-> 400, st |-> "rejected_nocode"]

\* A request arrives on an accepted socket and the handler runs up to its
\* first await. throws: writing the response throws before server.close().
Request(query, throws) ==
    /\ Alive
    /\ connections > 0
    /\ Len(handlers) < MaxRequests
    /\ handlers' = Append(handlers, HandlerEntry(query, throws))
    /\ server' = CloseServer(server)
    /\ closeCalls' = closeCalls + 1
    /\ IF throws
       THEN /\ promise' = Reject(promise, "handler exception")
            /\ ResumeAuth(Reject(promise, "handler exception"))
            /\ UNCHANGED <<codesAcquired, exchanges>>
       ELSE IF Truthy(query)
       THEN /\ codesAcquired' = codesAcquired + 1
            /\ exchanges' = exchanges + 1
            /\ UNCHANGED <<promise, pc, credentials, authResult>>
       ELSE /\ promise' = Reject(promise, "No authorization code received")
            /\ ResumeAuth(Reject(promise, "No authorization code received"))
            /\ UNCHANGED <<codesAcquired, exchanges>>
    /\ UNCHANGED <<variant, tokenFile, tokenLoaded, authUrls, manualCode, connections>>
    /\ UNCHANGED <<tokenFileAtStart, pipeVars>>

\* getToken settles in handler h: the token file write starts, or reject.
ExchangeDone(h, ok) ==
    /\ Alive
    /\ h \in DOMAIN handlers
    /\ handlers[h].st = "exchange"
    /\ IF ok
       THEN /\ handlers' = [handlers EXCEPT ![h].st = "write"]
            /\ UNCHANGED <<promise, pc, credentials, authResult>>
       ELSE /\ handlers' = [handlers EXCEPT ![h].st = "rejected_exchange"]
            /\ promise' = Reject(promise, "invalid_grant")
            /\ ResumeAuth(Reject(promise, "invalid_grant"))
    /\ UNCHANGED <<variant, tokenFile, tokenLoaded, authUrls, codesAcquired, exchanges,
                   manualCode, server, closeCalls, connections>>
    /\ UNCHANGED <<tokenFileAtStart, pipeVars>>

\* fs.writeFile(TOKEN_PATH, ...) of handler h advances in the file system,
\* ahead of its callback: the open with flag 'w' truncates the file, then the
\* data is written. Other callbacks of the process can run in between.
TokenFileProgress(h) ==
    /\ Alive
    /\ h \in DOMAIN handlers
    /\ handlers[h].st \in {"write", "write_opened"}
    /\ IF handlers[h].st = "write"
       THEN /\ tokenFile' = FileTruncated
            /\ handlers' = [handlers EXCEPT ![h].st = "write_opened"]
       ELSE /\ tokenFile' = JSONstringifyTokens(TokensFor(handlers[h].query))
            /\ handlers' = [handlers EXCEPT ![h].st = "write_flushed"]
    /\ UNCHANGED <<pc, variant, tokenLoaded, credentials, authResult, authUrls,
                   codesAcquired, exchanges, manualCode, promise, server,
                   closeCalls, connections>>
    /\ UNCHANGED <<tokenFileAtStart, pipeVars>>

\* await fs.writeFile(TOKEN_PATH, ...) settles in handler h: fulfilled once
\* the data is written, resolve(tokens); rejected when the open or the write
\* failed, reject(error).
TokenWriteDone(h, ok) ==
    /\ Alive
    /\ h \in DOMAIN handlers
    /\ IF ok
       THEN /\ handlers[h].st = "write_flushed"
            /\ handlers' = [handlers EXCEPT ![h].st = "resolved"]
            /\ promise' = Resolve(promise, TokensFor(handlers[h].query))
            /\ ResumeAuth(Resolve(promise, TokensFor(handlers[h].query)))
       ELSE /\ handlers[h].st \in {"write", "write_opened"}
            /\ handlers' = [handlers EXCEPT ![h].st = "rejected_write"]
            /\ promise' = Reject(promise, "EACCES")
            /\ ResumeAuth(Reject(promise, "EACCES"))
    /\ UNCHANGED <<variant, tokenFile, tokenLoaded, authUrls, codesAcquired,
                   exchanges, manualCode, server, closeCalls, connections>>
    /\ UNCHANGED <<tokenFileAtStart, pipeVars>>

AuthNext ==
    \/ ReadTokenFile
    \/ \E code \in Codes : ManualCode(code)
    \/ \E ok \in BOOLEAN : ManualExchange(ok)
    \/ \E ok \in BOOLEAN, truncated \in BOOLEAN : ManualWrite(ok, truncated)
    \/ ServerListening
    \/ ServerError
    \/ Accept
    \/ \E query \in Queries, throws \in BOOLEAN : Request(query, throws)
    \/ \E h \in 1..MaxRequests, ok \in BOOLEAN : ExchangeDone(h, ok)
    \/ \E h \in 1..MaxRequests : TokenFileProgress(h)
    \/ \E h \in 1..MaxRequests, ok \in BOOLEAN : TokenWriteDone(h, ok)

\* ------------------------------------------------------------ pipeline

\* gmail.users.messages.list settles. A rejection leaves fetchCVSEmails and
\* main exits with status 1; an empty list is returned as []  and main
\* completes; otherwise extractEmailData is called for every message, each
\* sending its messages.get request, and Promise.all is awaited.
ListMessages(ok, msgs) ==
    /\ pc = "list"
    /\ IF ~ok
       THEN /\ fetchResult' = "threw"
            /\ pc' = "exit1"
            /\ UNCHANGED <<messages, responses, slots>>
       ELSE /\ messages' = msgs
            /\ responses' = [i \in DOMAIN msgs |-> NoResponse]
            /\ slots' = [i \in DOMAIN msgs |-> PendingSlot]
            /\ fetchResult' = IF Len(msgs) = 0 THEN "returned" ELSE "pending"
            /\ pc' = IF Len(msgs) = 0 THEN "done" ELSE "extract"
    /\ UNCHANGED <<emailData, outputDirExists, outputWritten, outputFile,
                   emailToPhoneMap, phoneNumbers, saveResult>>
    /\ UNCHANGED <<tokenFileAtStart, authVars>>

\* fetchCVSEmails once the promises stand as newSlots: when Promise.all has
\* settled it resumes from its await before any other callback runs. It
\* returns emailData and main enters saveEmailData (emails.length > 0),
\* which starts mkdir; or the rejection leaves fetchCVSEmails and main exits
\* with status 1.
ResumeFetch(newSlots) ==
    IF pc = "extract" /\ PromiseAllState(newSlots) = "fulfilled"
    THEN /\ emailData' = PromiseAllValues(newSlots)
         /\ fetchResult' = "returned"
         /\ pc' = IF Len(PromiseAllValues(newSlots)) > 0
                  THEN "save_mkdir" ELSE "done"
    ELSE IF pc = "extract" /\ PromiseAllState(newSlots) = "rejected"
    THEN /\ fetchResult' = "threw"
         /\ pc' = "exit1"
         /\ UNCHANGED emailData
    ELSE UNCHANGED <<pc, fetchResult, emailData>>

\* messages.get settles for the message at position i, its extractEmailData
\* runs to its return, and fetchCVSEmails resumes if that settles Promise.all.
ExtractSettle(i, resp) ==
    /\ Alive
    /\ i \in DOMAIN slots
    /\ slots[i].st = "pending"
    /\ responses' = [responses EXCEPT ![i] = resp]
    /\ slots' = [slots EXCEPT ![i] = extractEmailData(messages[i], resp)]
    /\ ResumeFetch([slots EXCEPT ![i] = extractEmailData(messages[i], resp)])
    /\ UNCHANGED <<messages, outputDirExists, outputWritten, outputFile,
                   emailToPhoneMap, phoneNumbers, saveResult>>
    /\ UNCHANGED <<tokenFileAtStart, authVars>>

\* fs.mkdir(outputDir, {recursive: true}) settles; a rejection is swallowed.
\* fs.writeFile of the output file starts.
SaveMkdir(ok) ==
    /\ pc = "save_mkdir"
    /\ outputDirExists' = ok
    /\ pc' = "save_write"
    /\ UNCHANGED <<fetchResult, messages, responses, slots, emailData,
                   outputWritten, outputFile, emailToPhoneMap, phoneNumbers,
                   saveResult>>
    /\ UNCHANGED <<tokenFileAtStart, authVars>>

\* fs.writeFile(filePath, JSON.stringify(emails, null, 2)) settles: it can
\* succeed only in an existing directory. A rejection leaves saveEmailData
\* and main exits with status 1; otherwise the mapping file read starts.
SaveWrite(ok) ==
    /\ pc = "save_write"
    /\ ok => outputDirExists
    /\ IF ok
       THEN /\ outputWritten' = TRUE
            /\ outputFile' = emailData
            /\ pc' = "save_map"
            /\ UNCHANGED saveResult
       ELSE /\ saveResult' = "EWRITE"
            /\ pc' = "exit1"
            /\ UNCHANGED <<outputWritten, outputFile>>
    /\ UNCHANGED <<fetchResult, messages, responses, slots, emailData,
                   outputDirExists, emailToPhoneMap, phoneNumbers>>
    /\ UNCHANGED <<tokenFileAtStart, authVars>>

\* fs.readFile(mappingFilePath) settles and saveEmailData runs to its end:
\* the mapping is loaded, the phone numbers are collected and returned, main
\* prints the summary and completes; a TypeError thrown by the loop leaves
\* saveEmailData and main exits with status 1.
SaveLoadMapping(file) ==
    /\ pc = "save_map"
    /\ emailToPhoneMap' = LoadMapping(file)
    /\ IF CollectPhoneNumbers(emailData, LoadMapping(file)).threw
       THEN /\ saveResult' = "TypeError"
            /\ pc' = "exit1"
            /\ UNCHANGED phoneNumbers
       ELSE /\ phoneNumbers' =
                 CollectPhoneNumbers(emailData, LoadMapping(file)).phones
            /\ saveResult' = "returned"
            /\ pc' = "done"
    /\ UNCHANGED <<fetchResult, messages, responses, slots, emailData,
                   outputDirExists, outputWritten, outputFile>>
    /\ UNCHANGED <<tokenFileAtStart, authVars>>

PipelineNext ==
    \/ \E ok \in BOOLEAN, msgs \in MessageLists : ListMessages(ok, msgs)
    \/ \E i \in 1..MaxMessages, resp \in GetResponses : ExtractSettle(i, resp)
    \/ \E ok \in BOOLEAN : SaveMkdir(ok)
    \/ \E ok \in BOOLEAN : SaveWrite(ok)
    \/ \E file \in MappingFiles : SaveLoadMapping(file)

Next == AuthNext \/ PipelineNext

AuthSpec == Init /\ [][AuthNext]_vars

PipelineSpec == PipelineInit /\ [][PipelineNext]_vars

Spec == Init /\ [][Next]_vars

\* ================================================================ claims

\* C1: when fetchCVSEmails has returned, its result has exactly one record
\* per listed message ref: the same length as the list, and the record at
\* position i carries the id of the ref at position i.
C1_OneRecordPerRef ==
    fetchResult = "returned" =>
        /\ Len(emailData) = Len(messages)
        /\ \A i \in DOMAIN messages : emailData[i].id = messages[i]

\* fetchCVSEmails has returned two records for two different refs, the first
\* from a failed extraction and the second from a successful one.
C1_Witness ==
    /\ fetchResult = "returned"
    /\ Len(messages) = 2
    /\ messages[1] # messages[2]
    /\ emailData[1].error # Undefined
    /\ emailData[2].error = Undefined

\* C2: whenever the authorization promise of the local-callback flow has
\* settled, server.close() has been called exactly once.
C2_ListenerStoppedExactlyOnce ==
    promise.state # "pending" => closeCalls = 1

\* C3: a handler that received a code, whose exchange succeeded and which
\* reached resolve(tokens), has resolved the authorization promise with the
\* tokens of its own code.
C3_CodeResolvesWithItsTokens ==
    \A h \in DOMAIN handlers :
        handlers[h].st = "resolved" =>
            /\ promise.state = "fulfilled"
            /\ promise.value = TokensFor(handlers[h].query)

\* C4: a redirect request without a code is answered with status 400, stops
\* the listener, starts no exchange, leaves the authorization promise
\* rejected and makes getAuthenticatedGmail fail without returning a client.
C4_NoCodeIsTerminal ==
    \A h \in DOMAIN handlers :
        handlers[h].st = "rejected_nocode" =>
            /\ handlers[h].status = 400
            /\ closeCalls >= 1
            /\ server # "listening"
            /\ promise.state = "rejected"
            /\ authResult = "threw"

\* The first value of a header named name, Null when there is none.
FirstHeaderValue(headers, name) ==
    IF \E k \in DOMAIN headers : headers[k].name = name
    THEN LET first == CHOOSE k \in DOMAIN headers :
                 /\ headers[k].name = name
                 /\ \A j \in 1..(k - 1) : headers[j].name # name
         IN headers[first].value
    ELSE Null

\* The provider's answer lets no record be built: the fetch threw, or the
\* response has no payload or no headers.
FetchFailed(resp) == resp.throws \/ ~resp.hasPayload \/ ~resp.hasHeaders

\* C5: no extractEmailData promise ever rejects; a settled one holds a record
\* with the id of its own ref which, when the fetch threw or the response
\* lacked payload or headers, has a non-null error and null to, date and
\* timestamp, and otherwise holds the fields of its own response, whatever
\* the other extractions did.
C5_ExtractNeverPropagates ==
    \A i \in DOMAIN slots :
        /\ slots[i].st # "rejected"
        /\ slots[i].st = "fulfilled" =>
            /\ slots[i].val.id = messages[i]
            /\ IF FetchFailed(responses[i])
               THEN /\ slots[i].val.error \notin {Null, Undefined}
                    /\ slots[i].val.to = Null
                    /\ slots[i].val.date = Null
                    /\ slots[i].val.timestamp = NullTs
               ELSE /\ slots[i].val.error = Undefined
                    /\ slots[i].val.to =
                           FirstHeaderValue(responses[i].headers, "To")
                    /\ slots[i].val.date =
                           FirstHeaderValue(responses[i].headers, "Date")
                    /\ slots[i].val.timestamp =
                           IF responses[i].internalDate = "1700"
                           THEN <<1700>> ELSE NullTs

\* Two extractions have settled and fetchCVSEmails has returned: the fetch
\* of the first threw, the second read its recipient from the first of two
\* To headers.
C5_Witness ==
    /\ Len(slots) = 2
    /\ slots[1].st = "fulfilled" /\ responses[1].throws
    /\ slots[2].st = "fulfilled" /\ ~FetchFailed(responses[2])
    /\ slots[2].val.to = "b@x.com"
    /\ fetchResult = "returned"

\* saveEmailData has been entered: it is suspended in one of its awaits, or
\* it has ended, or main has gone on to the summary.
SaveEntered ==
    \/ pc \in {"save_mkdir", "save_write", "save_map"}
    \/ saveResult # "pending"
    \/ outputWritten
    \/ pc = "done" /\ Len(messages) > 0

\* C6: once saveEmailData has been entered, no dispatched extraction is
\* still in flight.
C6_FanIn ==
    SaveEntered => \A i \in DOMAIN slots : slots[i].st # "pending"

\* saveEmailData is entered after a fan-out of two extractions.
C6_Witness ==
    /\ pc = "save_mkdir"
    /\ Len(slots) = 2
    /\ \A i \in DOMAIN slots : slots[i].st = "fulfilled"

\* C7: at most one code-for-token exchange is performed in a run, and when
\* the cached token was loaded no authorization URL is built, no code is
\* acquired and no exchange is performed.
C7_AtMostOneExchange ==
    /\ exchanges <= 1
    /\ tokenLoaded => authUrls = 0 /\ codesAcquired = 0 /\ exchanges = 0

\* C8: saveEmailData fails only when the output file could not be written
\* (the directory missing or the write rejected).
C8_SaveFailsOnlyOnWrite ==
    saveResult \notin {"pending", "returned"} =>
        /\ saveResult = "EWRITE"
        /\ ~outputWritten

\* The phone numbers of the records from index i on whose recipient is a
\* key of the mapping, in record order.
RECURSIVE MappedPhones(_, _, _)
MappedPhones(emails, props, i) ==
    IF i > Len(emails) THEN <<>>
    ELSE IF emails[i].to \in DOMAIN props
    THEN <<props[emails[i].to]>> \o MappedPhones(emails, props, i + 1)
    ELSE MappedPhones(emails, props, i + 1)

\* C9: with a string-to-string mapping loaded, the sequence saveEmailData
\* returns is mapping[record.to] for exactly the records whose recipient is
\* a key of the mapping, in record order, duplicates kept.
C9_PhonesAreMappedRecipients ==
    (saveResult = "returned" /\ emailToPhoneMap.kind = "object") =>
        phoneNumbers = MappedPhones(emailData, emailToPhoneMap.props, 1)

\* C10: a run that has ended has exit status 1 exactly when authentication
\* failed, listing failed or the output file could not be written.
C10_ExitStatusIffFatal ==
    pc \in {"done", "exit1"} =>
        (pc = "exit1" <=>
            \/ authResult = "threw"
            \/ fetchResult = "threw"
            \/ saveResult = "EWRITE")

\* C11: once getAuthenticatedGmail has settled, token.json differs from its
\* content at the start of the run only if a code-for-token exchange was made
\* and authentication returned a client; a run whose authentication threw
\* leaves token.json as it was. Both variants, any order of requests.
C11_TokenFileOnlyOnSuccess ==
    authResult # "pending" =>
        /\ authResult = "threw" => tokenFile = tokenFileAtStart
        /\ tokenFile # tokenFileAtStart =>
               authResult = "client" /\ exchanges > 0
====
